---- MODULE Spec2Model ----
(***************************************************************************)
(* State-machine model of AnalogGaugeWidget (gauge.py): the value and its  *)
(* bounds, the pointer-driven drag, the resize-dependent layout and the    *)
(* layers a repaint draws.                                                 *)
(*                                                                         *)
(* Numbers.  Bounds, angles and counts are integers.  The gauge value, the *)
(* pointer's mapped value and the painter rotations are Python floats in   *)
(* the source; the model computes them as exact rationals <<n, d>> in      *)
(* lowest terms with d > 0.  int() is truncation toward zero (Trunc).      *)
(* The pointer is modelled at the offsets whose atan2 is an exact multiple  *)
(* of 45 degrees; on the configurations SpecMouse reaches, the source's    *)
(* float results take the same branches and emit the same integers.        *)
(***************************************************************************)
EXTENDS Integers, Sequences, FiniteSets, TLC

----------------------------------------------------------------------------
(* Exact rational arithmetic standing for Python's numeric operators.      *)

Abs(n) == IF n < 0 THEN -n ELSE n

RECURSIVE GCD(_, _)
GCD(a, b) == IF b = 0 THEN a ELSE GCD(b, a % b)

\* The rational n/d (d # 0) in lowest terms with a positive denominator.
Norm(n, d) ==
    LET g == GCD(Abs(n), Abs(d))
        s == IF d < 0 THEN -1 ELSE 1
    IN  <<(s * n) \div g, (s * d) \div g>>

Q(n) == <<n, 1>>

RAdd(a, b) == Norm(a[1] * b[2] + b[1] * a[2], a[2] * b[2])
RSub(a, b) == Norm(a[1] * b[2] - b[1] * a[2], a[2] * b[2])
RMul(a, b) == Norm(a[1] * b[1], a[2] * b[2])
\* a / b, for b # 0 (the callers guard the zero divisor).
RDiv(a, b) == Norm(a[1] * b[2], a[2] * b[1])
RLe(a, b) == a[1] * b[2] <= b[1] * a[2]
RLt(a, b) == a[1] * b[2] < b[1] * a[2]
RGe(a, b) == RLe(b, a)
RGt(a, b) == RLt(b, a)

\* Python int(x): truncation toward zero.
Trunc(a) == IF a[1] >= 0 THEN a[1] \div a[2] ELSE -((-a[1]) \div a[2])

\* math.fmod(x, m) for integers x and m > 0: the result has the sign of x.
Fmod(x, m) == IF x >= 0 THEN x % m ELSE -((-x) % m)

----------------------------------------------------------------------------
(* Bounds of the model and the argument sets drawn from them.              *)

MaxArgSteps == 3
MaxCount == 3
MaxSizeSteps == 2
MaxRadius == 1

\* Arguments of set_MinValue / set_MaxValue (integers).
BoundArgs == {-10, 6} \cup {50 * k : k \in 0..MaxArgSteps}

\* Arguments of update_value: integers and halves, below, inside and above
\* the bounds.
ValueArgs == {Q(-10), Norm(-21, 2), Norm(7, 2)}
             \cup {Norm(25 * k, 2) : k \in 0..(4 * MaxArgSteps)}

\* Arguments of set_start_scale_angle and set_total_scale_angle_size.
StartArgs == {0, 135}
SizeArgs == {0, 270, 360}

\* Arguments of update_angle_offset.
OffsetArgs == {0, 30}

\* Arguments of set_scala_main_count.
CountArgs == -1..MaxCount

\* The sizes Qt gives a new widget: 640 x 480 for a window, 100 x 30 for a
\* child.
InitSizes == {<<640, 480>>, <<100, 30>>}

\* The number of VideoThread objects the window creates in a run, the
\* number of slot calls the event loop holds, and the number of frames of
\* the video file.
MaxThreads == 2
MaxQueue == 2
MaxFrames == 1

----------------------------------------------------------------------------
(* Program constants.                                                      *)

value_offset == 0
scala_subdiv_count == 5
initial_scale_fontsize == 15
initial_value_fontsize == 40
\* value_needle_snapzone = 0.05 and needle_scale_factor = 0.8
value_needle_snapzone == Norm(1, 20)
needle_scale_factor == Norm(4, 5)
text_radius_factor == Norm(7, 10)

\* QColor(R, G, B, Transparency)
QColor(R, G, B, T) == <<R, G, B, T>>

----------------------------------------------------------------------------
VARIABLES
    value, value_min, value_max, last_value,
    NeedleColor, NeedleColorReleased, NeedleColorDrag,
    scale_angle_start_value, scale_angle_size, angle_offset,
    scala_main_count,
    width, height, widget_diameter, value_needle,
    scale_fontsize, value_fontsize,
    enable_Needle_Polygon, enable_scale_text, enable_barGraph,
    enable_value_text, enable_CenterPoint, enable_filled_Polygon,
    enable_big_scaled_marker, enable_fine_scaled_marker,
    scale_polygon_colors,
    center_horizontal_value, center_vertical_value,
    emitted,         \* the valueChanged emissions of the last handler, in order
    update_pending,  \* a repaint has been requested by update() and not yet run
    painted,         \* the draw calls of the last handler, layer by layer
    failed,          \* the last handler raised an exception
    last,            \* the last handler and its arguments
    \* The main window (Ui_MainWindow) and its video threads.
    ui_pc,           \* where the UI thread is: "new", "idle", or inside stop_video
    ui_cont,         \* what the running handler does after stop_video returns
    video_path,
    frame_visible,   \* isVisible() of the four tab panels
    btn_start_enabled, btn_stop_enabled,
    video_thread,    \* the VideoThread the window refers to, 0 for None
    last_frame_position,
    webcam,          \* the content of the video area
    threads,         \* the VideoThread objects created so far
    events           \* the queued slot calls of the UI thread's event loop

valueVars == <<value, value_min, value_max>>
colorVars == <<NeedleColor, NeedleColorReleased, NeedleColorDrag>>
angleVars == <<scale_angle_start_value, scale_angle_size, angle_offset>>
layoutVars == <<width, height, widget_diameter, value_needle,
                scale_fontsize, value_fontsize>>
toggleVars == <<enable_Needle_Polygon, enable_scale_text, enable_barGraph,
                enable_value_text, enable_CenterPoint, enable_filled_Polygon,
                enable_big_scaled_marker, enable_fine_scaled_marker>>

centerVars == <<center_horizontal_value, center_vertical_value>>
gaugeVars == <<valueVars, last_value, colorVars, angleVars, scala_main_count,
               layoutVars, toggleVars, scale_polygon_colors, centerVars,
               emitted, update_pending, painted, failed, last>>
appVars == <<ui_pc, ui_cont, video_path, frame_visible, btn_start_enabled,
             btn_stop_enabled, video_thread, last_frame_position, webcam,
             threads, events>>

vars == <<gaugeVars, appVars>>

----------------------------------------------------------------------------
(* Construction and layout.                                                *)

\* use_timer_event is set to False in __init__ and never changed: every
\* "if not self.use_timer_event: self.update()" requests a repaint.
use_timer_event == FALSE

\* self.update() under "if not self.use_timer_event".
UpdateRequested(pending) == IF ~use_timer_event THEN TRUE ELSE pending

\* The needle polygon rescale_method builds for a diameter d:
\* the tip length is int(d / 2 * needle_scale_factor).
NeedlePolygon(d) ==
    LET tip == Trunc(RMul(Norm(d, 2), needle_scale_factor))
    IN  << <<4, 30>>, <<-4, 30>>, <<-2, -tip>>, <<0, -tip - 6>>, <<2, -tip>> >>

\* rescale_method taking the larger of width and height as the diameter.
rescale_method_Larger(w, h) ==
    LET d == IF w <= h THEN h ELSE w
    IN  [widget_diameter |-> d,
         value_needle    |-> NeedlePolygon(d),
         scale_fontsize  |-> (initial_scale_fontsize * d) \div 400,
         value_fontsize  |-> (initial_value_fontsize * d) \div 400]

\* rescale_method: the layout derived from the widget's width and height.
rescale_method(w, h) ==
    LET d == IF w <= h THEN w ELSE h
    IN  [widget_diameter |-> d,
         value_needle    |-> NeedlePolygon(d),
         scale_fontsize  |-> (initial_scale_fontsize * d) \div 400,
         value_fontsize  |-> (initial_value_fontsize * d) \div 400]

\* The thread objects, the tab panels and the arguments of --play-video.
Threads == 1..MaxThreads
Frames == {"frame_dashboard", "frame_ac", "frame_music", "frame_map"}
None == "None"
VideoPaths == {None, "video.mp4"}

\* A VideoThread that has not been created.  Besides the object's fields a
\* thread records the capture device it holds, the connections of its two
\* signals to the window's slots, and whether stop_video has waited for it.
NoThread ==
    [pc |-> "none", running |-> FALSE, _should_stop |-> FALSE, cap |-> None,
     device |-> "closed", pos |-> 0, start_frame |-> 0,
     frame_captured |-> FALSE, error_occurred |-> FALSE,
     waited |-> FALSE]

\* The content of the video area: nothing, a frame of a thread, or a message.
Pixmap(kind, text, thread) == [kind |-> kind, text |-> text, thread |-> thread]

\* What a handler does after stop_video: nothing, or display_error_message.
NoCont == [then |-> "return", message |-> ""]

\* The process before main() has built the window: no thread, no message,
\* both buttons as Qt creates them.
AppNew ==
    /\ ui_pc = "new"
    /\ ui_cont = NoCont
    /\ video_path = None
    /\ frame_visible = [f \in Frames |-> FALSE]
    /\ btn_start_enabled = TRUE
    /\ btn_stop_enabled = TRUE
    /\ video_thread = 0
    /\ last_frame_position = 0
    /\ webcam = Pixmap("empty", "", 0)
    /\ threads = [t \in Threads |-> NoThread]
    /\ events = <<>>

Init ==
    /\ AppNew
    /\ center_horizontal_value = 0
    /\ center_vertical_value = 0
    /\ value_min = 0
    /\ value_max = 1000
    /\ value = Q(0)
    /\ last_value = Q(0)
    /\ NeedleColor = QColor(50, 50, 50, 255)
    /\ NeedleColorReleased = QColor(50, 50, 50, 255)
    /\ NeedleColorDrag = QColor(255, 0, 0, 255)
    /\ scale_angle_start_value = 135
    /\ scale_angle_size = 270
    /\ angle_offset = 0
    /\ scala_main_count = 10
    /\ scale_polygon_colors = << <<Q(0), "red">>, <<Norm(1, 10), "yellow">>,
                                 <<Norm(15, 100), "green">>,
                                 <<Q(1), "transparent">> >>
    /\ enable_scale_text = TRUE
    /\ enable_value_text = TRUE
    /\ enable_barGraph = TRUE
    /\ enable_filled_Polygon = TRUE
    /\ enable_CenterPoint = TRUE
    /\ enable_fine_scaled_marker = TRUE
    /\ enable_big_scaled_marker = TRUE
    /\ enable_Needle_Polygon = TRUE
    /\ \E sz \in InitSizes :
          /\ width = sz[1]
          /\ height = sz[2]
          /\ widget_diameter = rescale_method(sz[1], sz[2]).widget_diameter
          /\ value_needle = rescale_method(sz[1], sz[2]).value_needle
          /\ scale_fontsize = rescale_method(sz[1], sz[2]).scale_fontsize
          /\ value_fontsize = rescale_method(sz[1], sz[2]).value_fontsize
    /\ emitted = <<>>
    /\ update_pending = UpdateRequested(FALSE)
    /\ painted = <<>>
    /\ failed = FALSE
    /\ last = <<"__init__", <<>>>>

----------------------------------------------------------------------------
(* Value and bounds.                                                       *)

\* update_value without the upper clamp.
update_value_NoUpperClamp(v) ==
    /\ value' = IF RLe(v, Q(value_min)) THEN Q(value_min) ELSE v
    /\ emitted' = <<Trunc(v)>>
    /\ update_pending' = UpdateRequested(update_pending)
    /\ failed' = FALSE
    /\ last' = <<"update_value", <<v>>>>
    /\ UNCHANGED <<centerVars, appVars>>
    /\ painted' = <<>>
    /\ UNCHANGED <<value_min, value_max, last_value, colorVars, angleVars,
                   scala_main_count, layoutVars, toggleVars,
                   scale_polygon_colors>>

update_value(v) ==
    /\ value' = IF RLe(v, Q(value_min)) THEN Q(value_min)
                ELSE IF RGe(v, Q(value_max)) THEN Q(value_max)
                ELSE v
    /\ emitted' = <<Trunc(v)>>
    /\ update_pending' = UpdateRequested(update_pending)
    /\ failed' = FALSE
    /\ last' = <<"update_value", <<v>>>>
    /\ UNCHANGED <<centerVars, appVars>>
    /\ painted' = <<>>
    /\ UNCHANGED <<value_min, value_max, last_value, colorVars, angleVars,
                   scala_main_count, layoutVars, toggleVars,
                   scale_polygon_colors>>

\* set_MinValue pushing a conflicting minimum onto the maximum itself.
set_MinValue_NoGap(min) ==
    /\ value' = IF RLt(value, Q(min)) THEN Q(min) ELSE value
    /\ value_min' = IF min >= value_max THEN value_max ELSE min
    /\ emitted' = <<>>
    /\ update_pending' = UpdateRequested(update_pending)
    /\ failed' = FALSE
    /\ last' = <<"set_MinValue", <<min>>>>
    /\ UNCHANGED <<centerVars, appVars>>
    /\ painted' = <<>>
    /\ UNCHANGED <<value_max, last_value, colorVars, angleVars,
                   scala_main_count, layoutVars, toggleVars,
                   scale_polygon_colors>>

set_MinValue(min) ==
    /\ value' = IF RLt(value, Q(min)) THEN Q(min) ELSE value
    /\ value_min' = IF min >= value_max THEN value_max - 1 ELSE min
    /\ emitted' = <<>>
    /\ update_pending' = UpdateRequested(update_pending)
    /\ failed' = FALSE
    /\ last' = <<"set_MinValue", <<min>>>>
    /\ UNCHANGED <<centerVars, appVars>>
    /\ painted' = <<>>
    /\ UNCHANGED <<value_max, last_value, colorVars, angleVars,
                   scala_main_count, layoutVars, toggleVars,
                   scale_polygon_colors>>

set_MaxValue(max) ==
    /\ value' = IF RGt(value, Q(max)) THEN Q(max) ELSE value
    /\ value_max' = IF max <= value_min THEN value_min + 1 ELSE max
    /\ emitted' = <<>>
    /\ update_pending' = UpdateRequested(update_pending)
    /\ failed' = FALSE
    /\ last' = <<"set_MaxValue", <<max>>>>
    /\ UNCHANGED <<centerVars, appVars>>
    /\ painted' = <<>>
    /\ UNCHANGED <<value_min, last_value, colorVars, angleVars,
                   scala_main_count, layoutVars, toggleVars,
                   scale_polygon_colors>>

UpdateValueStep == \E v \in ValueArgs : update_value(v)
SetMinValueStep == \E min \in BoundArgs : set_MinValue(min)
SetMaxValueStep == \E max \in BoundArgs : set_MaxValue(max)

\* The value API alone: update_value, set_MinValue and set_MaxValue in any
\* order with any arguments.
NextValue == UpdateValueStep \/ SetMinValueStep \/ SetMaxValueStep

SpecValue == Init /\ [][NextValue]_vars

----------------------------------------------------------------------------
(* Angle and needle-color configuration.                                   *)

set_start_scale_angle(a) ==
    /\ scale_angle_start_value' = a
    /\ emitted' = <<>>
    /\ update_pending' = UpdateRequested(update_pending)
    /\ failed' = FALSE
    /\ last' = <<"set_start_scale_angle", <<a>>>>
    /\ UNCHANGED <<centerVars, appVars>>
    /\ painted' = <<>>
    /\ UNCHANGED <<valueVars, last_value, colorVars, scale_angle_size,
                   angle_offset, scala_main_count, layoutVars, toggleVars,
                   scale_polygon_colors>>

set_total_scale_angle_size(a) ==
    /\ scale_angle_size' = a
    /\ emitted' = <<>>
    /\ update_pending' = UpdateRequested(update_pending)
    /\ failed' = FALSE
    /\ last' = <<"set_total_scale_angle_size", <<a>>>>
    /\ UNCHANGED <<centerVars, appVars>>
    /\ painted' = <<>>
    /\ UNCHANGED <<valueVars, last_value, colorVars, scale_angle_start_value,
                   angle_offset, scala_main_count, layoutVars, toggleVars,
                   scale_polygon_colors>>

update_angle_offset(offset) ==
    /\ angle_offset' = offset
    /\ emitted' = <<>>
    /\ update_pending' = UpdateRequested(update_pending)
    /\ failed' = FALSE
    /\ last' = <<"update_angle_offset", <<offset>>>>
    /\ UNCHANGED <<centerVars, appVars>>
    /\ painted' = <<>>
    /\ UNCHANGED <<valueVars, last_value, colorVars, scale_angle_start_value,
                   scale_angle_size, scala_main_count, layoutVars, toggleVars,
                   scale_polygon_colors>>

set_NeedleColor(R, G, B, T) ==
    /\ NeedleColor' = QColor(R, G, B, T)
    /\ NeedleColorReleased' = QColor(R, G, B, T)
    /\ emitted' = <<>>
    /\ update_pending' = UpdateRequested(update_pending)
    /\ failed' = FALSE
    /\ last' = <<"set_NeedleColor", <<R, G, B, T>>>>
    /\ UNCHANGED <<centerVars, appVars>>
    /\ painted' = <<>>
    /\ UNCHANGED <<valueVars, last_value, NeedleColorDrag, angleVars,
                   scala_main_count, layoutVars, toggleVars,
                   scale_polygon_colors>>

set_NeedleColorDrag(R, G, B, T) ==
    /\ NeedleColorDrag' = QColor(R, G, B, T)
    /\ emitted' = <<>>
    /\ update_pending' = UpdateRequested(update_pending)
    /\ failed' = FALSE
    /\ last' = <<"set_NeedleColorDrag", <<R, G, B, T>>>>
    /\ UNCHANGED <<centerVars, appVars>>
    /\ painted' = <<>>
    /\ UNCHANGED <<valueVars, last_value, NeedleColor, NeedleColorReleased,
                   angleVars, scala_main_count, layoutVars, toggleVars,
                   scale_polygon_colors>>

----------------------------------------------------------------------------
(* Pointer events.                                                         *)

\* math.atan2(y, x) / math.pi * 180 for the offsets (rationals) whose angle
\* is a multiple of 45 degrees: on the horizontal axis and on the diagonals.
\* (x = 0 is returned from before the angle is computed.)
OnCompass(x, y) == x[1] = 0 \/ y[1] = 0 \/ Abs(x[1]) * y[2] = Abs(y[1]) * x[2]

Atan2Deg(y, x) ==
    IF y[1] = 0 THEN (IF x[1] > 0 THEN 0 ELSE 180)
    ELSE IF y[1] > 0 THEN (IF x[1] > 0 THEN 45 ELSE 135)
    ELSE (IF x[1] > 0 THEN -45 ELSE -135)

\* The value the pointer angle maps to (gauge.py:572-573); the caller has
\* checked scale_angle_size # 0.
RawValue(angle) ==
    RAdd(RDiv(Q(Fmod(angle - scale_angle_start_value + 720, 360)),
              RDiv(Q(scale_angle_size), Q(value_max - value_min))),
         Q(value_min))

\* The snap-zone test with its upper comparison left out.
InSnapZone_LowerOnly(raw) ==
    LET zone == RMul(Q(value_max - value_min), value_needle_snapzone)
    IN  RLe(RSub(value, zone), raw)

\* The snap-zone test of gauge.py:574-576.
InSnapZone(raw) ==
    LET zone == RMul(Q(value_max - value_min), value_needle_snapzone)
    IN  /\ RLe(RSub(value, zone), raw)
        /\ RLe(raw, RAdd(value, zone))

\* The wrap-around branches of gauge.py:578-588: the new last_value and the
\* value that is emitted.
DragCommit(raw) ==
    IF /\ RGe(raw, Q(value_max))
       /\ RLt(last_value, Norm(value_max - value_min, 2))
    THEN [last_value |-> Q(value_min), emit |-> Trunc(Q(value_max))]
    ELSE IF RGe(raw, Q(value_max)) /\ RGe(Q(value_max), last_value)
    THEN [last_value |-> Q(value_max), emit |-> Trunc(Q(value_max))]
    ELSE [last_value |-> raw, emit |-> Trunc(raw)]

mouseMoveEvent(ex, ey) ==
    LET x == RSub(Q(ex), Norm(width, 2))
        y == RSub(Q(ey), Norm(height, 2))
        raw == RawValue(Atan2Deg(y, x))
    IN  /\ OnCompass(x, y)
        /\ last' = <<"mouseMoveEvent", <<ex, ey>>>>
        /\ UNCHANGED <<centerVars, appVars>>
        /\ painted' = <<>>
        /\ IF x[1] = 0
           THEN /\ failed' = FALSE
                /\ emitted' = <<>>
                /\ UNCHANGED <<NeedleColor, last_value>>
           ELSE IF scale_angle_size = 0
           THEN \* float division by zero: ZeroDivisionError
                /\ failed' = TRUE
                /\ emitted' = <<>>
                /\ UNCHANGED <<NeedleColor, last_value>>
           ELSE IF InSnapZone(raw)
           THEN /\ failed' = FALSE
                /\ NeedleColor' = NeedleColorDrag
                /\ last_value' = DragCommit(raw).last_value
                /\ emitted' = <<DragCommit(raw).emit>>
           ELSE /\ failed' = FALSE
                /\ emitted' = <<>>
                /\ UNCHANGED <<NeedleColor, last_value>>
        /\ UNCHANGED <<valueVars, NeedleColorReleased, NeedleColorDrag,
                       angleVars, scala_main_count, layoutVars, toggleVars,
                       scale_polygon_colors, update_pending>>

\* mouseReleaseEvent storing the remembered drag value on release.
mouseReleaseEvent_Commit ==
    /\ NeedleColor' = NeedleColorReleased
    /\ value' = last_value
    /\ emitted' = <<>>
    /\ update_pending' = UpdateRequested(update_pending)
    /\ failed' = FALSE
    /\ last' = <<"mouseReleaseEvent", <<>>>>
    /\ UNCHANGED <<centerVars, appVars>>
    /\ painted' = <<>>
    /\ UNCHANGED <<value_min, value_max, last_value, NeedleColorReleased,
                   NeedleColorDrag, angleVars, scala_main_count, layoutVars,
                   toggleVars, scale_polygon_colors>>

mouseReleaseEvent ==
    /\ NeedleColor' = NeedleColorReleased
    /\ emitted' = <<>>
    /\ update_pending' = UpdateRequested(update_pending)
    /\ failed' = FALSE
    /\ last' = <<"mouseReleaseEvent", <<>>>>
    /\ UNCHANGED <<centerVars, appVars>>
    /\ painted' = <<>>
    /\ UNCHANGED <<valueVars, last_value, NeedleColorReleased,
                   NeedleColorDrag, angleVars, scala_main_count, layoutVars,
                   toggleVars, scale_polygon_colors>>

\* Pointer positions around the widget's centre.
PointerXs == {(width \div 2) + k : k \in (-MaxRadius)..MaxRadius}
PointerYs == {(height \div 2) + k : k \in (-MaxRadius)..MaxRadius}

\* The arguments the pointer scenarios configure the gauge with.
MouseMinArgs == {50}
MouseMaxArgs == {100}
MouseValueArgs == {Q(0), Norm(25, 2), Norm(175, 2), Q(100), Q(150)}
ColorArgs == {<<255, 255, 200, 255>>}

MouseMoveStep == \E ex \in PointerXs, ey \in PointerYs : mouseMoveEvent(ex, ey)
MouseUpdateValueStep == \E v \in MouseValueArgs : update_value(v)
MouseSetMinValueStep == \E min \in MouseMinArgs : set_MinValue(min)
MouseSetMaxValueStep == \E max \in MouseMaxArgs : set_MaxValue(max)
SetStartAngleStep == \E a \in StartArgs : set_start_scale_angle(a)
SetAngleSizeStep == \E a \in SizeArgs : set_total_scale_angle_size(a)
SetNeedleColorStep ==
    \E c \in ColorArgs : set_NeedleColor(c[1], c[2], c[3], c[4])

\* The gauge configured through its setters and driven by the pointer.
NextMouse ==
    \/ MouseMoveStep
    \/ mouseReleaseEvent
    \/ MouseUpdateValueStep
    \/ MouseSetMinValueStep
    \/ MouseSetMaxValueStep
    \/ SetStartAngleStep
    \/ SetAngleSizeStep
    \/ SetNeedleColorStep

SpecMouse == Init /\ [][NextMouse]_vars

\* The arguments of the drag scenarios: a scale of 310 degrees starting at
\* 0, on which the pointer at -45 degrees maps above value_max, and a
\* maximum lowered after a drag.
DragStartArgs == {0}
DragSizeArgs == {310}
DragMaxArgs == {700}
DragValueArgs == {Q(725), Q(980), Q(1000)}

DragUpdateValueStep == \E v \in DragValueArgs : update_value(v)
DragSetMaxValueStep == \E max \in DragMaxArgs : set_MaxValue(max)
DragSetStartAngleStep == \E a \in DragStartArgs : set_start_scale_angle(a)
DragSetAngleSizeStep ==
    \E a \in DragSizeArgs : set_total_scale_angle_size(a)

\* The gauge dragged at and beyond the end of its scale.
NextDrag ==
    \/ MouseMoveStep
    \/ DragUpdateValueStep
    \/ DragSetMaxValueStep
    \/ DragSetStartAngleStep
    \/ DragSetAngleSizeStep

SpecDrag == Init /\ [][NextDrag]_vars

----------------------------------------------------------------------------
(* Tick count, resize and repaint.                                         *)

\* set_scala_main_count storing the count as given, without the floor of 1.
set_scala_main_count_NoFloor(count) ==
    /\ scala_main_count' = count
    /\ emitted' = <<>>
    /\ update_pending' = UpdateRequested(update_pending)
    /\ failed' = FALSE
    /\ last' = <<"set_scala_main_count", <<count>>>>
    /\ UNCHANGED <<centerVars, appVars>>
    /\ painted' = <<>>
    /\ UNCHANGED <<valueVars, last_value, colorVars, angleVars, layoutVars,
                   toggleVars, scale_polygon_colors>>

set_scala_main_count(count) ==
    /\ scala_main_count' = IF count < 1 THEN 1 ELSE count
    /\ emitted' = <<>>
    /\ update_pending' = UpdateRequested(update_pending)
    /\ failed' = FALSE
    /\ last' = <<"set_scala_main_count", <<count>>>>
    /\ UNCHANGED <<centerVars, appVars>>
    /\ painted' = <<>>
    /\ UNCHANGED <<valueVars, last_value, colorVars, angleVars, layoutVars,
                   toggleVars, scale_polygon_colors>>

\* resizeEvent with the widget's new size (w, h): rescale_method, whose
\* change_value_needle_style requests a repaint.
resizeEvent(w, h) ==
    /\ width' = w
    /\ height' = h
    /\ widget_diameter' = rescale_method(w, h).widget_diameter
    /\ value_needle' = rescale_method(w, h).value_needle
    /\ scale_fontsize' = rescale_method(w, h).scale_fontsize
    /\ value_fontsize' = rescale_method(w, h).value_fontsize
    /\ emitted' = <<>>
    /\ update_pending' = UpdateRequested(update_pending)
    /\ failed' = FALSE
    /\ last' = <<"resizeEvent", <<w, h>>>>
    /\ UNCHANGED <<centerVars, appVars>>
    /\ painted' = <<>>
    /\ UNCHANGED <<valueVars, last_value, colorVars, angleVars,
                   scala_main_count, toggleVars, scale_polygon_colors>>

\* floor(n / d) for d > 0.
Floor(a) == IF a[1] >= 0 THEN a[1] \div a[2]
            ELSE -(((-a[1]) + a[2] - 1) \div a[2])

\* Python round(x): to the nearest integer, a tie to the even one.
Round(a) ==
    LET f == Floor(a)
        r == RSub(a, Q(f))
    IN  IF RLt(r, Norm(1, 2)) THEN f
        ELSE IF RGt(r, Norm(1, 2)) THEN f + 1
        ELSE IF f % 2 = 0 THEN f ELSE f + 1

\* The colors and radius factors __init__ sets.
ScaleValueColor == QColor(50, 50, 50, 255)
DisplayValueColor == QColor(50, 50, 50, 255)
CenterPointColor == QColor(50, 50, 50, 255)
gauge_color_outer_radius_factor == Q(1)
gauge_color_inner_radius_factor == Norm(95, 100)

\* create_polygon_pie: the swept length in one-degree steps, the angle of
\* the first point and the number of points of the polygon.
create_polygon_pie(outer_radius, inner_raduis, start, lenght) ==
    LET len == IF ~enable_barGraph
               THEN Round(RMul(RDiv(Q(lenght), Q(value_max - value_min)),
                               RSub(value, Q(value_min))))
               ELSE lenght
        n == IF len + 1 > 0 THEN len + 1 ELSE 0
    IN  [lenght |-> len,
         first_angle |-> start - angle_offset,
         outer_radius |-> outer_radius,
         inner_raduis |-> inner_raduis,
         points |-> 2 * n + 1]

draw_filled_polygon ==
    [layer |-> "filled_polygon",
     polygon |-> create_polygon_pie(
                    RMul(Norm(widget_diameter, 2),
                         gauge_color_outer_radius_factor),
                    RMul(Norm(widget_diameter, 2),
                         gauge_color_inner_radius_factor),
                    scale_angle_start_value, scale_angle_size),
     gradient_angle |-> - scale_angle_size - scale_angle_start_value
                        + angle_offset - 1,
     stops |-> scale_polygon_colors]

\* n lines drawn from radius x1 to radius x2, the painter first rotated by
\* first and then by step after every line.
MarkerLines(n, first, step, x1, x2) ==
    [i \in 1..n |-> [rotation |-> RAdd(Q(first), RMul(Q(i - 1), step)),
                     x1 |-> x1, x2 |-> x2]]

create_fine_scaled_marker ==
    [layer |-> "fine_scaled_marker",
     lines |-> MarkerLines(
                  (scala_main_count * scala_subdiv_count) + 1,
                  scale_angle_start_value - angle_offset,
                  RDiv(Q(scale_angle_size),
                       Q(scala_main_count * scala_subdiv_count)),
                  Trunc(RSub(Norm(widget_diameter, 2),
                             Norm(widget_diameter, 40))),
                  widget_diameter \div 2)]

\* The major tick loop running one iteration short.
draw_big_scaled_markter_Short ==
    [layer |-> "big_scaled_marker",
     lines |-> MarkerLines(
                  scala_main_count,
                  scale_angle_start_value - angle_offset,
                  RDiv(Q(scale_angle_size), Q(scala_main_count)),
                  Trunc(RSub(Norm(widget_diameter, 2),
                             Norm(widget_diameter, 20))),
                  widget_diameter \div 2)]

draw_big_scaled_markter ==
    [layer |-> "big_scaled_marker",
     lines |-> MarkerLines(
                  scala_main_count + 1,
                  scale_angle_start_value - angle_offset,
                  RDiv(Q(scale_angle_size), Q(scala_main_count)),
                  Trunc(RSub(Norm(widget_diameter, 2),
                             Norm(widget_diameter, 20))),
                  widget_diameter \div 2)]

\* The scale labels computed with exact division, truncated per label.
create_scale_marker_values_text_ExactDiv ==
    LET scale_per_div == Norm(value_max - value_min, scala_main_count)
        angle_distance == RDiv(Q(scale_angle_size), Q(scala_main_count))
    IN  [layer |-> "scale_marker_values_text",
         fontsize |-> scale_fontsize,
         color |-> ScaleValueColor,
         texts |-> [k \in 1..(scala_main_count + 1) |->
                      [text |-> Trunc(RAdd(Q(value_min),
                                           RMul(scale_per_div, Q(k - 1)))),
                       angle |-> RAdd(RMul(angle_distance, Q(k - 1)),
                                      Q(scale_angle_start_value
                                        - angle_offset)),
                       radius |-> RMul(Norm(widget_diameter, 2),
                                       Norm(8, 10))]]]

create_scale_marker_values_text ==
    LET scale_per_div == (value_max - value_min) \div scala_main_count
        angle_distance == RDiv(Q(scale_angle_size), Q(scala_main_count))
    IN  [layer |-> "scale_marker_values_text",
         fontsize |-> scale_fontsize,
         color |-> ScaleValueColor,
         texts |-> [k \in 1..(scala_main_count + 1) |->
                      [text |-> value_min + scale_per_div * (k - 1),
                       angle |-> RAdd(RMul(angle_distance, Q(k - 1)),
                                      Q(scale_angle_start_value
                                        - angle_offset)),
                       radius |-> RMul(Norm(widget_diameter, 2),
                                       Norm(8, 10))]]]

create_values_text ==
    LET angle_end == scale_angle_start_value + scale_angle_size - 360
    IN  [layer |-> "values_text",
         fontsize |-> value_fontsize,
         color |-> DisplayValueColor,
         text |-> Trunc(value),
         angle |-> RAdd(Norm(angle_end - scale_angle_start_value, 2),
                        Q(scale_angle_start_value)),
         radius |-> RMul(Norm(widget_diameter, 2), text_radius_factor)]

\* draw_needle rotating the needle by the angle offset like the scale.
draw_needle_WithOffset ==
    [layer |-> "needle",
     color |-> NeedleColor,
     rotation |-> RAdd(RDiv(RMul(RSub(RSub(value, Q(value_offset)),
                                      Q(value_min)),
                                 Q(scale_angle_size)),
                            Q(value_max - value_min)),
                       Q(90 + scale_angle_start_value - angle_offset)),
     polygon |-> value_needle]

draw_needle ==
    [layer |-> "needle",
     color |-> NeedleColor,
     rotation |-> RAdd(RDiv(RMul(RSub(RSub(value, Q(value_offset)),
                                      Q(value_min)),
                                 Q(scale_angle_size)),
                            Q(value_max - value_min)),
                       Q(90 + scale_angle_start_value)),
     polygon |-> value_needle]

draw_big_needle_center_point(diameter) ==
    [layer |-> "center_point",
     color |-> CenterPointColor,
     x |-> Trunc(Norm(-diameter, 2)),
     y |-> Trunc(Norm(-diameter, 2)),
     diameter |-> diameter]

\* float(self.scale_angle_size) / float(self.scala_main_count * ...) and
\* (self.value_max - self.value_min) // self.scala_main_count: the tick
\* and label layers raise ZeroDivisionError for a major tick count of 0.
TickSpacingFails ==
    /\ scala_main_count = 0
    /\ enable_fine_scaled_marker \/ enable_big_scaled_marker
          \/ enable_scale_text

\* paintEvent drawing the needle before the value text.
paintEvent_NeedleUnderText ==
    /\ painted' =
          (IF enable_filled_Polygon THEN <<draw_filled_polygon>> ELSE <<>>)
          \o (IF TickSpacingFails THEN <<>> ELSE
              (IF enable_fine_scaled_marker
               THEN <<create_fine_scaled_marker>> ELSE <<>>)
              \o (IF enable_big_scaled_marker
                  THEN <<draw_big_scaled_markter>> ELSE <<>>)
              \o (IF enable_scale_text
                  THEN <<create_scale_marker_values_text>> ELSE <<>>)
              \o (IF enable_Needle_Polygon THEN <<draw_needle>> ELSE <<>>)
              \o (IF enable_value_text THEN <<create_values_text>> ELSE <<>>)
              \o (IF enable_CenterPoint
                  THEN <<draw_big_needle_center_point(widget_diameter \div 6)>>
                  ELSE <<>>))
    /\ update_pending' = FALSE
    /\ emitted' = <<>>
    /\ failed' = TickSpacingFails
    /\ last' = <<"paintEvent", <<>>>>
    /\ UNCHANGED <<centerVars, appVars>>
    /\ UNCHANGED <<valueVars, last_value, colorVars, angleVars,
                   scala_main_count, layoutVars, toggleVars,
                   scale_polygon_colors>>

\* paintEvent: the enabled layers in the order of gauge.py:521-545; a
\* ZeroDivisionError in a tick or label layer ends the handler.
paintEvent ==
    /\ painted' =
          (IF enable_filled_Polygon THEN <<draw_filled_polygon>> ELSE <<>>)
          \o (IF TickSpacingFails THEN <<>> ELSE
              (IF enable_fine_scaled_marker
               THEN <<create_fine_scaled_marker>> ELSE <<>>)
              \o (IF enable_big_scaled_marker
                  THEN <<draw_big_scaled_markter>> ELSE <<>>)
              \o (IF enable_scale_text
                  THEN <<create_scale_marker_values_text>> ELSE <<>>)
              \o (IF enable_value_text THEN <<create_values_text>> ELSE <<>>)
              \o (IF enable_Needle_Polygon THEN <<draw_needle>> ELSE <<>>)
              \o (IF enable_CenterPoint
                  THEN <<draw_big_needle_center_point(widget_diameter \div 6)>>
                  ELSE <<>>))
    /\ update_pending' = FALSE
    /\ emitted' = <<>>
    /\ failed' = TickSpacingFails
    /\ last' = <<"paintEvent", <<>>>>
    /\ UNCHANGED <<centerVars, appVars>>
    /\ UNCHANGED <<valueVars, last_value, colorVars, angleVars,
                   scala_main_count, layoutVars, toggleVars,
                   scale_polygon_colors>>

\* The arguments the repaint scenarios configure the gauge with.
PaintMaxArgs == {100}
PaintValueArgs == {Norm(7, 2), Q(50), Q(150)}
PaintMinArgs == {-10}
ResizeArgs == {<<100 * k, 200>> : k \in 1..MaxSizeSteps} \cup {<<311, 281>>}

ResizeStep == \E sz \in ResizeArgs : resizeEvent(sz[1], sz[2])
SetMainCountStep == \E count \in CountArgs : set_scala_main_count(count)
PaintUpdateValueStep == \E v \in PaintValueArgs : update_value(v)
PaintSetMaxValueStep == \E max \in PaintMaxArgs : set_MaxValue(max)
PaintSetMinValueStep == \E min \in PaintMinArgs : set_MinValue(min)
UpdateAngleOffsetStep == \E offset \in OffsetArgs : update_angle_offset(offset)

\* The gauge configured through its setters, resized and repainted.
NextPaint ==
    \/ paintEvent
    \/ ResizeStep
    \/ SetMainCountStep
    \/ PaintUpdateValueStep
    \/ PaintSetMaxValueStep
    \/ PaintSetMinValueStep
    \/ SetStartAngleStep
    \/ SetAngleSizeStep
    \/ UpdateAngleOffsetStep

SpecPaint == Init /\ [][NextPaint]_vars

----------------------------------------------------------------------------
(* The visibility toggles and the gradient of the scale band.              *)

\* A toggle setter that flips the flag instead of storing its argument.
set_enable_Needle_Polygon_Flip(enable) ==
    /\ enable_Needle_Polygon' = ~enable_Needle_Polygon
    /\ emitted' = <<>>
    /\ update_pending' = UpdateRequested(update_pending)
    /\ failed' = FALSE
    /\ last' = <<"set_enable_Needle_Polygon", <<enable>>>>
    /\ UNCHANGED <<centerVars, appVars>>
    /\ painted' = <<>>
    /\ UNCHANGED <<valueVars, last_value, colorVars, angleVars,
                   scala_main_count, layoutVars, scale_polygon_colors,
                   enable_scale_text, enable_barGraph, enable_value_text,
                   enable_CenterPoint, enable_filled_Polygon,
                   enable_big_scaled_marker, enable_fine_scaled_marker>>

set_enable_Needle_Polygon(enable) ==
    /\ enable_Needle_Polygon' = enable
    /\ emitted' = <<>>
    /\ update_pending' = UpdateRequested(update_pending)
    /\ failed' = FALSE
    /\ last' = <<"set_enable_Needle_Polygon", <<enable>>>>
    /\ UNCHANGED <<centerVars, appVars>>
    /\ painted' = <<>>
    /\ UNCHANGED <<valueVars, last_value, colorVars, angleVars,
                   scala_main_count, layoutVars, scale_polygon_colors,
                   enable_scale_text, enable_barGraph, enable_value_text,
                   enable_CenterPoint, enable_filled_Polygon,
                   enable_big_scaled_marker, enable_fine_scaled_marker>>

set_enable_ScaleText(enable) ==
    /\ enable_scale_text' = enable
    /\ emitted' = <<>>
    /\ update_pending' = UpdateRequested(update_pending)
    /\ failed' = FALSE
    /\ last' = <<"set_enable_ScaleText", <<enable>>>>
    /\ UNCHANGED <<centerVars, appVars>>
    /\ painted' = <<>>
    /\ UNCHANGED <<valueVars, last_value, colorVars, angleVars,
                   scala_main_count, layoutVars, scale_polygon_colors,
                   enable_Needle_Polygon, enable_barGraph, enable_value_text,
                   enable_CenterPoint, enable_filled_Polygon,
                   enable_big_scaled_marker, enable_fine_scaled_marker>>

set_enable_barGraph(enable) ==
    /\ enable_barGraph' = enable
    /\ emitted' = <<>>
    /\ update_pending' = UpdateRequested(update_pending)
    /\ failed' = FALSE
    /\ last' = <<"set_enable_barGraph", <<enable>>>>
    /\ UNCHANGED <<centerVars, appVars>>
    /\ painted' = <<>>
    /\ UNCHANGED <<valueVars, last_value, colorVars, angleVars,
                   scala_main_count, layoutVars, scale_polygon_colors,
                   enable_Needle_Polygon, enable_scale_text, enable_value_text,
                   enable_CenterPoint, enable_filled_Polygon,
                   enable_big_scaled_marker, enable_fine_scaled_marker>>

set_enable_value_text(enable) ==
    /\ enable_value_text' = enable
    /\ emitted' = <<>>
    /\ update_pending' = UpdateRequested(update_pending)
    /\ failed' = FALSE
    /\ last' = <<"set_enable_value_text", <<enable>>>>
    /\ UNCHANGED <<centerVars, appVars>>
    /\ painted' = <<>>
    /\ UNCHANGED <<valueVars, last_value, colorVars, angleVars,
                   scala_main_count, layoutVars, scale_polygon_colors,
                   enable_Needle_Polygon, enable_scale_text, enable_barGraph,
                   enable_CenterPoint, enable_filled_Polygon,
                   enable_big_scaled_marker, enable_fine_scaled_marker>>

set_enable_CenterPoint(enable) ==
    /\ enable_CenterPoint' = enable
    /\ emitted' = <<>>
    /\ update_pending' = UpdateRequested(update_pending)
    /\ failed' = FALSE
    /\ last' = <<"set_enable_CenterPoint", <<enable>>>>
    /\ UNCHANGED <<centerVars, appVars>>
    /\ painted' = <<>>
    /\ UNCHANGED <<valueVars, last_value, colorVars, angleVars,
                   scala_main_count, layoutVars, scale_polygon_colors,
                   enable_Needle_Polygon, enable_scale_text, enable_barGraph,
                   enable_value_text, enable_filled_Polygon,
                   enable_big_scaled_marker, enable_fine_scaled_marker>>

set_enable_filled_Polygon(enable) ==
    /\ enable_filled_Polygon' = enable
    /\ emitted' = <<>>
    /\ update_pending' = UpdateRequested(update_pending)
    /\ failed' = FALSE
    /\ last' = <<"set_enable_filled_Polygon", <<enable>>>>
    /\ UNCHANGED <<centerVars, appVars>>
    /\ painted' = <<>>
    /\ UNCHANGED <<valueVars, last_value, colorVars, angleVars,
                   scala_main_count, layoutVars, scale_polygon_colors,
                   enable_Needle_Polygon, enable_scale_text, enable_barGraph,
                   enable_value_text, enable_CenterPoint,
                   enable_big_scaled_marker, enable_fine_scaled_marker>>

set_enable_big_scaled_grid(enable) ==
    /\ enable_big_scaled_marker' = enable
    /\ emitted' = <<>>
    /\ update_pending' = UpdateRequested(update_pending)
    /\ failed' = FALSE
    /\ last' = <<"set_enable_big_scaled_grid", <<enable>>>>
    /\ UNCHANGED <<centerVars, appVars>>
    /\ painted' = <<>>
    /\ UNCHANGED <<valueVars, last_value, colorVars, angleVars,
                   scala_main_count, layoutVars, scale_polygon_colors,
                   enable_Needle_Polygon, enable_scale_text, enable_barGraph,
                   enable_value_text, enable_CenterPoint,
                   enable_filled_Polygon, enable_fine_scaled_marker>>

set_enable_fine_scaled_marker(enable) ==
    /\ enable_fine_scaled_marker' = enable
    /\ emitted' = <<>>
    /\ update_pending' = UpdateRequested(update_pending)
    /\ failed' = FALSE
    /\ last' = <<"set_enable_fine_scaled_marker", <<enable>>>>
    /\ UNCHANGED <<centerVars, appVars>>
    /\ painted' = <<>>
    /\ UNCHANGED <<valueVars, last_value, colorVars, angleVars,
                   scala_main_count, layoutVars, scale_polygon_colors,
                   enable_Needle_Polygon, enable_scale_text, enable_barGraph,
                   enable_value_text, enable_CenterPoint,
                   enable_filled_Polygon, enable_big_scaled_marker>>

\* [[.0, Qt.transparent]]: the single fully transparent color stop.
TransparentStop == << <<Q(0), "transparent">> >>

\* 'list' in str(type(color_array)), for the type names of the arguments
\* below: of these only str(type([...])) = "<class 'list'>" contains it.
IsListType(type) == type = "list"

\* An argument of set_scale_polygon_colors: its Python type and, for a
\* sequence, its items.
ColorStops == << <<Q(0), "red">>, <<Q(1), "green">> >>
ColorArrayArgs ==
    {[type |-> "NoneType", items |-> <<>>],
     [type |-> "list", items |-> <<>>],
     [type |-> "list", items |-> ColorStops],
     [type |-> "tuple", items |-> ColorStops],
     [type |-> "str", items |-> <<>>]}

set_scale_polygon_colors(color_array) ==
    /\ scale_polygon_colors' =
          IF IsListType(color_array.type) THEN color_array.items
          ELSE IF color_array.type = "NoneType" THEN TransparentStop
          ELSE TransparentStop
    /\ emitted' = <<>>
    /\ update_pending' = UpdateRequested(update_pending)
    /\ failed' = FALSE
    /\ last' = <<"set_scale_polygon_colors", <<color_array>>>>
    /\ UNCHANGED <<centerVars, appVars>>
    /\ painted' = <<>>
    /\ UNCHANGED <<valueVars, last_value, colorVars, angleVars,
                   scala_main_count, layoutVars, toggleVars>>

SetEnableNeedlePolygonStep ==
    \E enable \in BOOLEAN : set_enable_Needle_Polygon(enable)
SetEnableScaleTextStep == \E enable \in BOOLEAN : set_enable_ScaleText(enable)
SetEnableBarGraphStep == \E enable \in BOOLEAN : set_enable_barGraph(enable)
SetEnableValueTextStep ==
    \E enable \in BOOLEAN : set_enable_value_text(enable)
SetEnableCenterPointStep ==
    \E enable \in BOOLEAN : set_enable_CenterPoint(enable)
SetEnableFilledPolygonStep ==
    \E enable \in BOOLEAN : set_enable_filled_Polygon(enable)
SetEnableBigScaledGridStep ==
    \E enable \in BOOLEAN : set_enable_big_scaled_grid(enable)
SetEnableFineScaledMarkerStep ==
    \E enable \in BOOLEAN : set_enable_fine_scaled_marker(enable)
SetScalePolygonColorsStep ==
    \E color_array \in ColorArrayArgs : set_scale_polygon_colors(color_array)

\* The gauge with its layers switched on and off, its gradient replaced,
\* and repainted.
NextToggle ==
    \/ paintEvent
    \/ SetEnableNeedlePolygonStep
    \/ SetEnableScaleTextStep
    \/ SetEnableBarGraphStep
    \/ SetEnableValueTextStep
    \/ SetEnableCenterPointStep
    \/ SetEnableFilledPolygonStep
    \/ SetEnableBigScaledGridStep
    \/ SetEnableFineScaledMarkerStep
    \/ SetScalePolygonColorsStep

SpecToggle == Init /\ [][NextToggle]_vars

----------------------------------------------------------------------------
(* Repaint requests.                                                       *)

center_horizontal(v) ==
    /\ center_horizontal_value' = v
    /\ emitted' = <<>>
    /\ failed' = FALSE
    /\ last' = <<"center_horizontal", <<v>>>>
    /\ painted' = <<>>
    /\ UNCHANGED <<valueVars, last_value, colorVars, angleVars,
                   scala_main_count, layoutVars, toggleVars,
                   scale_polygon_colors, center_vertical_value,
                   update_pending, appVars>>

center_vertical(v) ==
    /\ center_vertical_value' = v
    /\ emitted' = <<>>
    /\ failed' = FALSE
    /\ last' = <<"center_vertical", <<v>>>>
    /\ painted' = <<>>
    /\ UNCHANGED <<valueVars, last_value, colorVars, angleVars,
                   scala_main_count, layoutVars, toggleVars,
                   scale_polygon_colors, center_horizontal_value,
                   update_pending, appVars>>

\* The arguments the repaint scenarios call the gauge with.
RepaintValueArgs == {Q(0), Q(500)}
CenterArgs == {5}

RepaintUpdateValueStep == \E v \in RepaintValueArgs : update_value(v)
CenterHorizontalStep == \E v \in CenterArgs : center_horizontal(v)
CenterVerticalStep == \E v \in CenterArgs : center_vertical(v)
SetNeedleColorDragStep ==
    \E c \in ColorArgs : set_NeedleColorDrag(c[1], c[2], c[3], c[4])

\* The gauge changed through its value, setters and pointer, with the
\* event loop running the requested repaints in between.
NextRepaint ==
    \/ paintEvent
    \/ MouseMoveStep
    \/ mouseReleaseEvent
    \/ RepaintUpdateValueStep
    \/ CenterHorizontalStep
    \/ CenterVerticalStep
    \/ SetNeedleColorDragStep
    \/ SetEnableNeedlePolygonStep

SpecRepaint == Init /\ [][NextRepaint]_vars

----------------------------------------------------------------------------
(* The video thread (VideoThread.run), one action per step of run().        *)

uiVars == <<ui_pc, ui_cont, video_path, frame_visible, btn_start_enabled,
            btn_stop_enabled, video_thread, last_frame_position, webcam>>

\* QThread.isRunning(): true from start() until run() has returned.
isRunning(t) == threads[t].pc \notin {"none", "finished"}

\* The messages error_occurred carries and the messages of the video area.
OpenFailedMessage ==
    IF video_path # None THEN "Video file not found or inaccessible!"
    ELSE "Camera not found or inaccessible!"
ReadFailedMessage ==
    IF video_path # None THEN "Video playback failed!"
    ELSE "Camera disconnected or stopped responding!"
ExceptionMessage ==
    IF video_path # None THEN "Video file error" ELSE "Camera error"
DisplayFailedMessage == "Error displaying frame"
PausedMessage == IF video_path # None THEN "Video Paused" ELSE "Camera Off"

\* signal.emit(arg) in thread t: the slot lives in the UI thread, so the
\* call is queued on the UI thread's event loop if the signal is connected.
Emit(t, signal, arg) ==
    IF threads[t][signal]
    THEN Append(events, [thread |-> t, signal |-> signal, arg |-> arg])
    ELSE events

\* The event loop holds at most MaxQueue queued calls.
CanEmit(t, signal) == threads[t][signal] => Len(events) < MaxQueue

\* self.running = True; self._should_stop = False
run_begin(t) ==
    /\ threads[t].pc = "started"
    /\ threads' = [threads EXCEPT ![t].running = TRUE,
                                  ![t]._should_stop = FALSE,
                                  ![t].pc = "capture"]
    /\ UNCHANGED <<events, uiVars, gaugeVars>>

\* self.cap = cv2.VideoCapture(...): a capture that is opened and holds the
\* device, one that is not, or an exception, which the except branch
\* reports.
run_capture(t) ==
    /\ threads[t].pc = "capture"
    /\ \E outcome \in {"opened", "unopened", "exception"} :
          IF outcome = "exception"
          THEN /\ CanEmit(t, "error_occurred")
               /\ events' = Emit(t, "error_occurred", ExceptionMessage)
               /\ threads' = [threads EXCEPT ![t].pc = "finally"]
          ELSE /\ threads' = [threads EXCEPT
                                 ![t].cap = outcome,
                                 ![t].device = IF outcome = "opened"
                                               THEN "open" ELSE "closed",
                                 ![t].pos = 0,
                                            ![t].pc = "isOpened"]
               /\ UNCHANGED events
    /\ UNCHANGED <<uiVars, gaugeVars>>

\* if not self.cap.isOpened(): emit, self.stop(), return; otherwise seek to
\* start_frame for a video file.
run_isOpened(t) ==
    /\ threads[t].pc = "isOpened"
    /\ IF threads[t].cap = "unopened"
       THEN /\ CanEmit(t, "error_occurred")
            /\ events' = Emit(t, "error_occurred", OpenFailedMessage)
            /\ threads' = [threads EXCEPT ![t]._should_stop = TRUE,
                                         ![t].pc = "finally"]
       ELSE /\ threads' =
                  [threads EXCEPT
                      ![t].pos = IF video_path # None
                                    /\ threads[t].start_frame > 0
                                 THEN threads[t].start_frame ELSE 0,
                      ![t].pc = "loop"]
            /\ UNCHANGED events
    /\ UNCHANGED <<uiVars, gaugeVars>>

\* while not self._should_stop
run_loop(t) ==
    /\ threads[t].pc = "loop"
    /\ threads' = [threads EXCEPT
                      ![t].pc = IF threads[t]._should_stop THEN "finally"
                                ELSE "read"]
    /\ UNCHANGED <<events, uiVars, gaugeVars>>

\* One iteration of the capture loop: read_frame(), for a video file the
\* rewind and second read_frame(), then the emit of the frame or the error.
\* A video file has MaxFrames frames; a read at its end returns no frame.
run_read_frame(t) ==
    /\ threads[t].pc = "read"
    /\ \E outcome \in {"frame", "rewound", "none", "exception"} :
          CASE outcome = "frame" ->
                  /\ video_path # None => threads[t].pos < MaxFrames
                  /\ CanEmit(t, "frame_captured")
                  /\ events' = Emit(t, "frame_captured", "frame")
                  /\ threads' =
                        [threads EXCEPT
                            ![t].pos = IF video_path # None
                                       THEN threads[t].pos + 1 ELSE 0,
                            ![t].pc = "loop"]
            [] outcome = "rewound" ->
                  /\ video_path # None
                  /\ CanEmit(t, "frame_captured")
                  /\ events' = Emit(t, "frame_captured", "frame")
                  /\ threads' = [threads EXCEPT ![t].pos = 1,
                                               ![t].pc = "loop"]
            [] outcome = "none" ->
                  /\ CanEmit(t, "error_occurred")
                  /\ events' = Emit(t, "error_occurred", ReadFailedMessage)
                  /\ threads' = [threads EXCEPT ![t].pos = 0,
                                               ![t].pc = "finally"]
            [] outcome = "exception" ->
                  /\ CanEmit(t, "error_occurred")
                  /\ events' = Emit(t, "error_occurred", ExceptionMessage)
                  /\ threads' = [threads EXCEPT ![t].pc = "finally"]
    /\ UNCHANGED <<uiVars, gaugeVars>>

\* run_finally without the call of cleanup().
run_finally_NoCleanup(t) ==
    /\ threads[t].pc = "finally"
    /\ threads' = [threads EXCEPT ![t].running = FALSE, ![t].pc = "return"]
    /\ UNCHANGED <<events, uiVars, gaugeVars>>

\* finally: self.running = False; self.cleanup()
run_finally(t) ==
    /\ threads[t].pc = "finally"
    /\ threads' = [threads EXCEPT ![t].running = FALSE, ![t].pc = "cleanup"]
    /\ UNCHANGED <<events, uiVars, gaugeVars>>

\* cleanup: if self.cap is not None: self.cap.release(); a released capture
\* has no frame position any more.
cleanup_release(t) ==
    /\ threads[t].pc = "cleanup"
    /\ threads' = IF threads[t].cap # None
                  THEN [threads EXCEPT ![t].cap = "released",
                                       ![t].device = "closed",
                                       ![t].pos = 0,
                                       ![t].pc = "clear"]
                  ELSE [threads EXCEPT ![t].pc = "return"]
    /\ UNCHANGED <<events, uiVars, gaugeVars>>

\* cleanup: self.cap = None
cleanup_clear(t) ==
    /\ threads[t].pc = "clear"
    /\ threads' = [threads EXCEPT ![t].cap = None, ![t].pc = "return"]
    /\ UNCHANGED <<events, uiVars, gaugeVars>>

\* run() returns: the thread has finished, isRunning() is false from now on.
run_return(t) ==
    /\ threads[t].pc = "return"
    /\ threads' = [threads EXCEPT ![t].pc = "finished"]
    /\ UNCHANGED <<events, uiVars, gaugeVars>>

VideoThread_run(t) ==
    \/ run_begin(t)
    \/ run_capture(t)
    \/ run_isOpened(t)
    \/ run_loop(t)
    \/ run_read_frame(t)
    \/ run_finally(t)
    \/ cleanup_release(t)
    \/ cleanup_clear(t)
    \/ run_return(t)

----------------------------------------------------------------------------
(* The main window (Ui_MainWindow): its handlers run on the UI thread, one *)
(* at a time; stop_video is split where it reads or writes what the video  *)
(* thread writes or reads.                                                 *)

\* is_video_running reading the thread's running flag instead of isRunning().
is_video_running_Flag ==
    video_thread # 0 /\ threads[video_thread].running

is_video_running == video_thread # 0 /\ isRunning(video_thread)

\* A handler returns to the event loop; one that came through
\* on_video_error first displays the error message.
Return(cont, pixmap) ==
    /\ ui_pc' = "idle"
    /\ ui_cont' = NoCont
    /\ webcam' = IF cont.then = "display_error_message"
                 THEN Pixmap("error", cont.message, 0)
                 ELSE pixmap

\* The VideoThread object the window no longer refers to is collected: what
\* remains of it are its connections, which the calls it has queued use.
Collected(thread) ==
    [thread EXCEPT !._should_stop = FALSE, !.pos = 0, !.start_frame = 0]

\* start_video: a new VideoThread, connected and started, unless one is
\* running.  The window creates at most MaxThreads threads.
start_video ==
    IF ~is_video_running
    THEN /\ video_thread < MaxThreads
         /\ video_thread' = video_thread + 1
         /\ threads' =
               [t \in Threads |->
                   IF t = video_thread + 1
                   THEN [pc |-> "started", running |-> FALSE,
                         _should_stop |-> FALSE, cap |-> None,
                         device |-> "closed", pos |-> 0,
                         start_frame |-> last_frame_position,
                         frame_captured |-> TRUE, error_occurred |-> TRUE,
                         waited |-> FALSE]
                   ELSE IF t = video_thread THEN Collected(threads[t])
                   ELSE threads[t]]
         /\ btn_start_enabled' = FALSE
         /\ btn_stop_enabled' = TRUE
    ELSE UNCHANGED <<video_thread, threads, btn_start_enabled,
                     btn_stop_enabled>>

\* stop_video resetting the buttons only where it stops a running thread.
stop_video_ButtonsInside(cont) ==
    IF is_video_running
    THEN /\ btn_start_enabled' = TRUE
         /\ btn_stop_enabled' = FALSE
         /\ ui_pc' = "get_current_frame_position"
         /\ ui_cont' = cont
         /\ UNCHANGED webcam
    ELSE /\ UNCHANGED <<btn_start_enabled, btn_stop_enabled>>
         /\ Return(cont, webcam)

\* stop_video up to "if self.is_video_running()": the buttons are reset,
\* and the handler returns if no thread is running.
stop_video(cont) ==
    /\ btn_start_enabled' = TRUE
    /\ btn_stop_enabled' = FALSE
    /\ IF is_video_running
       THEN /\ ui_pc' = "get_current_frame_position"
            /\ ui_cont' = cont
            /\ UNCHANGED webcam
       ELSE Return(cont, webcam)

\* get_current_frame_position: "self.cap is not None and self.video_path".
get_current_frame_position ==
    /\ ui_pc = "get_current_frame_position"
    /\ IF threads[video_thread].cap # None /\ video_path # None
       THEN /\ ui_pc' = "cap.get"
            /\ UNCHANGED last_frame_position
       ELSE /\ ui_pc' = "disconnect"
            /\ last_frame_position' = 0
    /\ UNCHANGED <<ui_cont, video_path, frame_visible, btn_start_enabled,
                   btn_stop_enabled, video_thread, webcam, threads, events,
                   gaugeVars>>

\* get_current_frame_position: "int(self.cap.get(...))", reading self.cap
\* again: AttributeError if the thread has set it to None in between; 0
\* from a capture that is not open.
cap_get ==
    /\ ui_pc = "cap.get"
    /\ IF threads[video_thread].cap = None
       THEN /\ ui_pc' = "raised"
            /\ UNCHANGED last_frame_position
       ELSE /\ ui_pc' = "disconnect"
            /\ last_frame_position' =
                  IF threads[video_thread].cap = "opened"
                  THEN threads[video_thread].pos ELSE 0
    /\ UNCHANGED <<ui_cont, video_path, frame_visible, btn_start_enabled,
                   btn_stop_enabled, video_thread, webcam, threads, events,
                   gaugeVars>>

\* stop_video going on to stop() without disconnecting the signals.
disconnect_Skipped ==
    /\ ui_pc = "disconnect"
    /\ ui_pc' = "stop"
    /\ UNCHANGED <<ui_cont, video_path, frame_visible, btn_start_enabled,
                   btn_stop_enabled, video_thread, last_frame_position,
                   webcam, threads, events, gaugeVars>>

\* frame_captured.disconnect(...); error_occurred.disconnect(...): calls
\* already queued for a disconnected slot are not made any more.
disconnect ==
    /\ ui_pc = "disconnect"
    /\ ui_pc' = "stop"
    /\ threads' = [threads EXCEPT ![video_thread].frame_captured = FALSE,
                                  ![video_thread].error_occurred = FALSE]
    /\ UNCHANGED <<ui_cont, video_path, frame_visible, btn_start_enabled,
                   btn_stop_enabled, video_thread, last_frame_position,
                   webcam, events, gaugeVars>>

\* self.video_thread.stop(): self._should_stop = True
stop ==
    /\ ui_pc = "stop"
    /\ ui_pc' = "wait"
    /\ threads' = [threads EXCEPT ![video_thread]._should_stop = TRUE]
    /\ UNCHANGED <<ui_cont, video_path, frame_visible, btn_start_enabled,
                   btn_stop_enabled, video_thread, last_frame_position,
                   webcam, events, gaugeVars>>

\* stop_video going on after wait() whether the thread has finished or not.
wait_NotBlocking ==
    /\ ui_pc = "wait"
    /\ Return(ui_cont, Pixmap("info", PausedMessage, 0))
    /\ threads' = [threads EXCEPT ![video_thread].waited = TRUE]
    /\ UNCHANGED <<video_path, frame_visible, btn_start_enabled,
                   btn_stop_enabled, video_thread, last_frame_position,
                   events, gaugeVars>>

\* self.video_thread.wait() returns once the thread has finished; then the
\* paused/off message is displayed and stop_video returns.
wait ==
    /\ ui_pc = "wait"
    /\ ~isRunning(video_thread)
    /\ Return(ui_cont, Pixmap("info", PausedMessage, 0))
    /\ threads' = [threads EXCEPT ![video_thread].waited = TRUE]
    /\ UNCHANGED <<video_path, frame_visible, btn_start_enabled,
                   btn_stop_enabled, video_thread, last_frame_position,
                   events, gaugeVars>>

on_video_error(error_message) ==
    stop_video([then |-> "display_error_message", message |-> error_message])

\* on_frame_captured: the frame is converted and displayed, or the
\* conversion raises and the except branch calls on_video_error.
on_frame_captured(frame) ==
    \E displayed \in BOOLEAN :
        IF displayed
        THEN /\ webcam' = Pixmap("frame", "", frame.thread)
             /\ UNCHANGED <<ui_pc, ui_cont, btn_start_enabled,
                            btn_stop_enabled>>
        ELSE on_video_error(DisplayFailedMessage)

\* setupUi without its show_dashboard(): no panel is ever hidden, so show()
\* makes all four visible, and stop_video has not reset the buttons.
setupUi_NoShowDashboard(path) ==
    /\ ui_pc = "new"
    /\ video_path' = path
    /\ video_thread' = 0
    /\ last_frame_position' = 0
    /\ frame_visible' = [f \in Frames |-> TRUE]
    /\ ui_pc' = "idle"
    /\ UNCHANGED <<ui_cont, btn_start_enabled, btn_stop_enabled, webcam,
                   threads, events, gaugeVars>>

\* main() builds the window: __init__, setupUi with its show_dashboard()
\* (no panel is visible before the window is shown), then show().
setupUi(path) ==
    /\ ui_pc = "new"
    /\ video_path' = path
    /\ video_thread' = 0
    /\ last_frame_position' = 0
    /\ frame_visible' = [f \in Frames |-> f = "frame_dashboard"]
    /\ stop_video(NoCont)
    /\ UNCHANGED <<threads, events, gaugeVars>>

\* _switch_tab without "if target_frame.isVisible(): return".
_switch_tab_Always(target_frame, enable_video) ==
    /\ ui_pc = "idle"
    /\ frame_visible' = [f \in Frames |-> f = target_frame]
    /\ IF enable_video
       THEN start_video /\ UNCHANGED <<ui_pc, ui_cont, webcam>>
       ELSE stop_video(NoCont) /\ UNCHANGED <<video_thread, threads>>
    /\ UNCHANGED <<video_path, last_frame_position, events, gaugeVars>>

\* _switch_tab: nothing is done for the tab that is visible; otherwise the
\* target panel is shown, the others are hidden, and the video is started
\* (Map) or stopped (any other tab).
_switch_tab(target_frame, enable_video) ==
    /\ ui_pc = "idle"
    /\ IF frame_visible[target_frame]
       THEN UNCHANGED <<ui_pc, ui_cont, frame_visible, btn_start_enabled,
                        btn_stop_enabled, video_thread, webcam, threads>>
       ELSE /\ frame_visible' = [f \in Frames |-> f = target_frame]
            /\ IF enable_video
               THEN start_video /\ UNCHANGED <<ui_pc, ui_cont, webcam>>
               ELSE stop_video(NoCont) /\ UNCHANGED <<video_thread, threads>>
    /\ UNCHANGED <<video_path, last_frame_position, events, gaugeVars>>

show_dashboard == _switch_tab("frame_dashboard", FALSE)
show_ac == _switch_tab("frame_ac", FALSE)
show_music == _switch_tab("frame_music", FALSE)
show_map == _switch_tab("frame_map", TRUE)

\* btn_start.clicked: the button is on the Map panel and must be enabled.
btn_start_clicked ==
    /\ ui_pc = "idle"
    /\ frame_visible["frame_map"]
    /\ btn_start_enabled
    /\ start_video
    /\ UNCHANGED <<ui_pc, ui_cont, webcam, video_path, frame_visible,
                   last_frame_position, events, gaugeVars>>

btn_stop_clicked ==
    /\ ui_pc = "idle"
    /\ frame_visible["frame_map"]
    /\ btn_stop_enabled
    /\ stop_video(NoCont)
    /\ UNCHANGED <<video_thread, threads, video_path, frame_visible,
                   last_frame_position, events, gaugeVars>>

\* The event loop makes the queued call at the head of its queue, if the
\* signal of the emitting thread is still connected to the slot.
frame_captured_call ==
    /\ ui_pc = "idle"
    /\ events # <<>>
    /\ Head(events).signal = "frame_captured"
    /\ threads[Head(events).thread].frame_captured
    /\ events' = Tail(events)
    /\ on_frame_captured(Head(events))
    /\ UNCHANGED <<video_thread, threads, video_path, frame_visible,
                   last_frame_position, gaugeVars>>

error_occurred_call ==
    /\ ui_pc = "idle"
    /\ events # <<>>
    /\ Head(events).signal = "error_occurred"
    /\ threads[Head(events).thread].error_occurred
    /\ events' = Tail(events)
    /\ on_video_error(Head(events).arg)
    /\ UNCHANGED <<video_thread, threads, video_path, frame_visible,
                   last_frame_position, gaugeVars>>

disconnected_call ==
    /\ ui_pc = "idle"
    /\ events # <<>>
    /\ ~threads[Head(events).thread][Head(events).signal]
    /\ events' = Tail(events)
    /\ UNCHANGED <<uiVars, threads, gaugeVars>>

SetupUiStep == \E path \in VideoPaths : setupUi(path)
VideoThreadStep == \E t \in Threads : VideoThread_run(t)

\* The window built, its tabs and buttons clicked, the event loop making
\* the queued slot calls, and the video threads running.
NextVideo ==
    \/ SetupUiStep
    \/ show_dashboard
    \/ show_ac
    \/ show_music
    \/ show_map
    \/ btn_start_clicked
    \/ btn_stop_clicked
    \/ frame_captured_call
    \/ error_occurred_call
    \/ disconnected_call
    \/ get_current_frame_position
    \/ cap_get
    \/ disconnect
    \/ stop
    \/ wait
    \/ VideoThreadStep

\* The window's video part does not depend on the size of a gauge.
InitVideo == Init /\ width = 640

SpecVideo == InitVideo /\ [][NextVideo]_vars

\* The operating system schedules every started thread, and a UI thread
\* that is not blocked goes on with its handler.
SpecVideoFair ==
    /\ SpecVideo
    /\ \A t \in Threads : WF_vars(VideoThread_run(t))
    /\ WF_vars(get_current_frame_position \/ cap_get \/ disconnect
               \/ stop \/ wait)

----------------------------------------------------------------------------
(* Claims about the value API, checked under SpecValue.                    *)

\* clamp(v, lo, hi) as the specification defines it.
Clamp(v, lo, hi) == IF RLt(v, Q(lo)) THEN Q(lo)
                    ELSE IF RGt(v, Q(hi)) THEN Q(hi)
                    ELSE v

\* C1: after update_value(v) the current value is clamp(v, value_min,
\* value_max): value_min when v <= value_min, value_max when v >= value_max
\* and v otherwise.
C1_UpdateValueClamps ==
    last[1] = "update_value" =>
        LET v == last[2][1]
        IN  /\ value = Clamp(v, value_min, value_max)
            /\ RLe(v, Q(value_min)) => value = Q(value_min)
            /\ RGe(v, Q(value_max)) => value = Q(value_max)
            /\ (RGt(v, Q(value_min)) /\ RLt(v, Q(value_max))) => value = v

\* With bounds 0..100, update_value(150) has stored 100.
C1_Witness ==
    /\ last = <<"update_value", <<Q(150)>>>>
    /\ value_min = 0
    /\ value_max = 100
    /\ value = Q(100)

\* C2: after any sequence of update_value, set_MinValue and set_MaxValue
\* calls the current value lies within [value_min, value_max].
C2_ValueWithinBounds ==
    /\ RLe(Q(value_min), value)
    /\ RLe(value, Q(value_max))

\* C3: value_min < value_max in every reachable state, and a requested
\* bound that would violate the order is replaced by the other bound
\* minus 1 (minimum) or plus 1 (maximum).
C3_MinBelowMax ==
    /\ value_min < value_max
    /\ last[1] = "set_MinValue" =>
          value_min = IF last[2][1] >= value_max THEN value_max - 1
                      ELSE last[2][1]
    /\ last[1] = "set_MaxValue" =>
          value_max = IF last[2][1] <= value_min THEN value_min + 1
                      ELSE last[2][1]

\* A minimum requested at or above the maximum has been pushed to max - 1.
C3_Witness ==
    /\ last[1] = "set_MinValue"
    /\ last[2][1] >= value_max
    /\ value_min = value_max - 1

\* C4: the notification update_value(v) emits carries the integer
\* truncation of the clamped value that was stored, not the raw input.
C4_EmitsClampedValue ==
    last[1] = "update_value" => emitted = <<Trunc(value)>>

----------------------------------------------------------------------------
(* Claims about the pointer-driven drag, checked under SpecMouse.          *)

\* The pointer offset from the widget centre for an event at (ex, ey).
PointerX(ex) == RSub(Q(ex), Norm(width, 2))
PointerY(ey) == RSub(Q(ey), Norm(height, 2))

\* The last handler was a pointer move that got as far as mapping the
\* pointer to a raw value (x # 0 and the mapping is defined).
MoveMapped(l) ==
    /\ l[1] = "mouseMoveEvent"
    /\ PointerX(l[2][1])[1] # 0
    /\ scale_angle_size # 0

\* The raw value that move mapped the pointer to.
MoveRaw(l) == RawValue(Atan2Deg(PointerY(l[2][2]), PointerX(l[2][1])))

\* raw lies outside [value - snap*(max-min), value + snap*(max-min)].
OutsideSnapZone(raw) ==
    \/ RLt(RAdd(raw, Norm(value_max - value_min, 20)), value)
    \/ RGt(RSub(raw, Norm(value_max - value_min, 20)), value)

\* C5: a pointer move whose mapped raw value lies outside the snap zone
\* around the current value does not switch the needle to the drag color,
\* does not change current_value or last_committed_value and emits nothing.
C5_MoveOutsideSnapZoneIgnored ==
    [][(MoveMapped(last') /\ OutsideSnapZone(MoveRaw(last')))
        => /\ NeedleColor' = NeedleColor
           /\ value' = value
           /\ last_value' = last_value
           /\ emitted' = <<>>]_vars

\* A move outside the snap zone has been handled with the needle idle.
C5_Witness ==
    /\ MoveMapped(last)
    /\ OutsideSnapZone(MoveRaw(last))
    /\ NeedleColor = NeedleColorReleased
    /\ NeedleColor # NeedleColorDrag
    /\ emitted = <<>>

\* C6: a pointer move whose mapped raw value lies inside the snap zone and
\* below value_max commits it: afterwards current_value = raw_value and
\* last_committed_value = raw_value.
C6_MoveCommitsRawValue ==
    [][(/\ MoveMapped(last')
        /\ ~OutsideSnapZone(MoveRaw(last'))
        /\ RLt(MoveRaw(last'), Q(value_max)))
        => /\ value' = MoveRaw(last')
           /\ last_value' = MoveRaw(last')]_vars

\* C7: on pointer release the needle color becomes the released variant
\* (the drag state is Idle again), current_value, the bounds and
\* last_committed_value are unchanged and nothing is emitted.
C7_ReleaseRestoresIdle ==
    [][last'[1] = "mouseReleaseEvent"
        => /\ NeedleColor' = NeedleColorReleased'
           /\ NeedleColorReleased' = NeedleColorReleased
           /\ value' = value
           /\ value_min' = value_min
           /\ value_max' = value_max
           /\ last_value' = last_value
           /\ emitted' = <<>>]_vars

\* A release after an accepted drag move left a committed drag value.
C7_Witness ==
    /\ last[1] = "mouseReleaseEvent"
    /\ NeedleColor = NeedleColorReleased
    /\ NeedleColor # NeedleColorDrag
    /\ last_value # Q(0)
    /\ last_value # value

----------------------------------------------------------------------------
(* Claims about resize and repaint, checked under SpecPaint.               *)

Min(a, b) == IF a <= b THEN a ELSE b

\* The layers of the given name among the draw calls of the last handler.
Layers(name) == SelectSeq(painted, LAMBDA r : r.layer = name)

\* C8: a resize changes only widget_diameter (set to min(width, height))
\* and the quantities derived from it; current_value, value_min, value_max,
\* the angles, the tick count, the toggles, the needle colors and
\* last_committed_value are unchanged.
C8_ResizeOnlyRescales ==
    [][last'[1] = "resizeEvent"
        => /\ widget_diameter' = Min(width', height')
           /\ width' = last'[2][1]
           /\ height' = last'[2][2]
           /\ UNCHANGED <<value, value_min, value_max, last_value>>
           /\ UNCHANGED <<angleVars, scala_main_count, toggleVars>>
           /\ UNCHANGED <<colorVars, scale_polygon_colors>>]_vars

\* A gauge holding a value and a non-default configuration has been
\* resized to a width above its height.
C8_Witness ==
    /\ last = <<"resizeEvent", <<311, 281>>>>
    /\ widget_diameter = 281
    /\ value = Q(50)
    /\ value_max = 100
    /\ scala_main_count = 3
    /\ angle_offset = 30

\* C9: with major ticks and scale numbers enabled, one repaint draws
\* exactly N + 1 major tick lines and N + 1 scale number labels for the
\* major tick count N >= 1.
C9_MajorTicksAndLabels ==
    (/\ last[1] = "paintEvent"
     /\ enable_big_scaled_marker
     /\ enable_scale_text)
    => /\ scala_main_count >= 1
       /\ Len(Layers("big_scaled_marker")) = 1
       /\ Len(Layers("big_scaled_marker")[1].lines) = scala_main_count + 1
       /\ Len(Layers("scale_marker_values_text")) = 1
       /\ Len(Layers("scale_marker_values_text")[1].texts)
             = scala_main_count + 1

\* A repaint with N = 3 drew four major tick lines and four labels.
C9_Witness ==
    /\ last[1] = "paintEvent"
    /\ scala_main_count = 3
    /\ Len(Layers("big_scaled_marker")[1].lines) = 4
    /\ Len(Layers("scale_marker_values_text")[1].texts) = 4

\* C10: the needle rotation used when painting equals
\* (value - value_min) * span / (value_max - value_min) + 90 + start, a
\* function of current_value, value_min, value_max, scale_angle_start and
\* scale_angle_size only.
C10_NeedleRotation ==
    (last[1] = "paintEvent" /\ enable_Needle_Polygon)
    => /\ Len(Layers("needle")) = 1
       /\ Layers("needle")[1].rotation =
             RAdd(RMul(RSub(value, Q(value_min)),
                       Norm(scale_angle_size, value_max - value_min)),
                  Q(90 + scale_angle_start_value))

\* With value_min = 0, value_max = 100, start = 135, span = 270 and
\* value = 50 the needle was painted at 360 degrees, whatever the offset.
C10_Witness ==
    /\ last[1] = "paintEvent"
    /\ value_min = 0
    /\ value_max = 100
    /\ scale_angle_start_value = 135
    /\ scale_angle_size = 270
    /\ value = Q(50)
    /\ angle_offset = 30
    /\ Layers("needle")[1].rotation = Q(360)

----------------------------------------------------------------------------
(* Claims about the toggles, the tick count and the gradient, checked     *)
(* under SpecToggle and SpecPaint.                                         *)

ToggleSetters ==
    {"set_enable_Needle_Polygon", "set_enable_ScaleText",
     "set_enable_barGraph", "set_enable_value_text",
     "set_enable_CenterPoint", "set_enable_filled_Polygon",
     "set_enable_big_scaled_grid", "set_enable_fine_scaled_marker"}

\* C11: each of the eight visibility toggle setters is idempotent: a call
\* that repeats the previous call (the same setter with the same boolean)
\* leaves the gauge in the state the first call left it in.
C11_ToggleSettersIdempotent ==
    [][(last[1] \in ToggleSetters /\ last' = last) => UNCHANGED vars]_vars

C11_Witness ==
    /\ last = <<"set_enable_Needle_Polygon", <<FALSE>>>>
    /\ ~enable_Needle_Polygon
    /\ update_pending
    /\ painted = <<>>

\* C12: the major tick count is at least 1 in every reachable state:
\* set_scala_main_count stores max(count, 1), and no repaint fails on the
\* division by the tick count in the tick and label spacing.
C12_MainCountAtLeastOne ==
    /\ scala_main_count >= 1
    /\ last[1] = "set_scala_main_count"
          => scala_main_count = (IF last[2][1] > 1 THEN last[2][1] ELSE 1)
    /\ last[1] = "paintEvent" => ~failed

C12_Witness ==
    /\ last[1] = "paintEvent"
    /\ scala_main_count = 1
    /\ Len(Layers("big_scaled_marker")[1].lines) = 2
    /\ Len(Layers("scale_marker_values_text")) = 1

\* C13: set_scale_polygon_colors given an empty list, None or a non-list
\* leaves exactly the one color stop (0.0, transparent) and does not fail;
\* given a non-empty list it stores that list.
C13_PolygonColorsFallback ==
    last[1] = "set_scale_polygon_colors" =>
        LET color_array == last[2][1]
        IN  /\ ~failed
            /\ scale_polygon_colors =
                  IF color_array.type = "list" /\ color_array.items # <<>>
                  THEN color_array.items
                  ELSE TransparentStop

\* C14: a pointer move at any position completes without a division by
\* zero, for every configuration reachable through the setters (any
\* bounds, any start angle, any span including 0).
C14_PointerMoveNeverFails == last[1] = "mouseMoveEvent" => ~failed

\* The operations of the gauge that change its state.
StateChangingOps ==
    ToggleSetters \cup
    {"update_value", "update_angle_offset", "center_horizontal",
     "center_vertical", "set_NeedleColor", "set_NeedleColorDrag",
     "set_scala_main_count", "set_MinValue", "set_MaxValue",
     "set_start_scale_angle", "set_total_scale_angle_size",
     "set_scale_polygon_colors", "mouseReleaseEvent"}

\* C15: in reactive mode every operation that changes the gauge's state
\* leaves a repaint requested when it returns: each configuration setter,
\* update_value, an accepted pointer move and the pointer release.
C15_RepaintRequested ==
    (\/ last[1] \in StateChangingOps
     \/ last[1] = "mouseMoveEvent" /\ emitted # <<>>)
        => update_pending

----------------------------------------------------------------------------
(* Claims about the video thread and the main window, checked under        *)
(* SpecVideo and SpecVideoFair.                                            *)

\* C16: every stop_video call returns: once stop() has been requested on
\* the running video thread (the UI thread is in wait()), the thread's
\* capture loop eventually exits and wait() completes, for every
\* interleaving of the UI thread and the video thread.
C16_StopVideoReturns == (ui_pc = "wait") ~> (ui_pc = "idle")

\* The threads that are running, in the sense of QThread.isRunning().
RunningThreads == {t \in Threads : isRunning(t)}

\* C17: at most one video thread is running at any time, and a step that
\* creates and starts a VideoThread (start_video, from a Start click or a
\* switch to the Map tab) is taken only when no thread is running.
C17_AtMostOneThreadRunning ==
    /\ [](Cardinality(RunningThreads) <= 1)
    /\ [][(\E t \in Threads : threads[t].pc = "none" /\ threads'[t].pc # "none")
            => RunningThreads = {}]_vars

C17_Witness ==
    /\ video_thread = 2
    /\ RunningThreads = {2}
    /\ threads[1].pc = "finished"
    /\ threads[2].pc = "read"

\* C18: on every exit path of VideoThread.run (open failure, stop
\* requested, read failure, exception) the thread ends with running ==
\* False, its capture released and cap == None.
C18_RunEndsCleanedUp ==
    \A t \in Threads :
        threads[t].pc = "finished" =>
            /\ ~threads[t].running
            /\ threads[t].device = "closed"
            /\ threads[t].cap = None

C18_Witness ==
    /\ video_path # None
    /\ threads[1].pc = "finished"
    /\ events # <<>>
    /\ Head(events) = [thread |-> 1, signal |-> "error_occurred",
                       arg |-> ReadFailedMessage]

\* The error messages a video thread reports through error_occurred.
ThreadErrorMessages ==
    {OpenFailedMessage, ReadFailedMessage, ExceptionMessage}

\* A step that ends the handling of the thread error error_message: the
\* queued on_video_error call made and finished at once (no thread is
\* running), or the stop_video it started left, by return or by exception.
ErrorHandled(error_message) ==
    \/ /\ ui_pc = "idle"
       /\ events # <<>>
       /\ Head(events).signal = "error_occurred"
       /\ Head(events).arg = error_message
       /\ threads[Head(events).thread].error_occurred
       /\ events' = Tail(events)
       /\ ui_pc' = "idle"
    \/ /\ ui_pc \notin {"new", "idle"}
       /\ ui_cont.then = "display_error_message"
       /\ ui_cont.message = error_message
       /\ ui_pc' \in {"idle", "raised"}

\* C19: when a video thread reports an error while its signals are
\* connected, handling it leaves the UI with no video thread running,
\* Start enabled, Stop disabled, and the error message as the content of
\* the video area.
C19_ErrorHandlingStopsVideo ==
    [][\A error_message \in ThreadErrorMessages :
          ErrorHandled(error_message) =>
              /\ ui_pc' = "idle"
              /\ ~is_video_running'
              /\ btn_start_enabled'
              /\ ~btn_stop_enabled'
              /\ webcam' = Pixmap("error", error_message, 0)]_vars

\* stop_video has stopped the window's thread (wait() has returned) and no
\* start_video has replaced the thread since.
Stopped ==
    /\ ui_pc = "idle"
    /\ video_thread # 0
    /\ threads[video_thread].waited

\* C20 as stated: after stop_video has stopped a running thread the video
\* area keeps the paused/off message until the next start_video.
C20_KeepsPausedMessage ==
    Stopped => webcam = Pixmap("info", PausedMessage, 0)

\* C20, amended: after stop_video has stopped a running thread (wait() has
\* returned for it) no frame captured by that thread is displayed any more,
\* whatever frames the thread has emitted or queued.  (The video area need
\* not keep the paused/off message: on_video_error overwrites it with its
\* error message, and a frame still queued by an earlier thread that ended
\* by itself, its signals never disconnected, is displayed over it.)
C20_NoFrameOfStoppedThread ==
    \A t \in Threads :
        threads[t].waited => webcam # Pixmap("frame", "", t)

C20_Witness ==
    /\ Stopped
    /\ webcam = Pixmap("info", PausedMessage, 0)
    /\ events # <<>>
    /\ Head(events) = [thread |-> video_thread, signal |-> "frame_captured",
                       arg |-> "frame"]

----------------------------------------------------------------------------
(* Claims about the window's buttons and tabs, checked under SpecVideo.    *)

\* C21: from the end of setupUi on, between any two handlers (start_video,
\* stop_video, tab switches, handled video errors) exactly one of the Start
\* and Stop buttons is enabled, and whenever a video thread is running it
\* is Stop that is enabled.
C21_ExactlyOneButtonEnabled ==
    /\ ui_pc # "new" => btn_start_enabled # btn_stop_enabled
    /\ ui_pc = "idle" /\ RunningThreads # {} => btn_stop_enabled

C21_Witness ==
    /\ ui_pc = "idle"
    /\ video_thread = 2
    /\ RunningThreads = {2}
    /\ threads[1].waited
    /\ btn_stop_enabled
    /\ ~btn_start_enabled

\* C22: a video thread is running only while the Map tab is the visible
\* tab: whenever a handler has returned with Dashboard, AC or Music
\* visible, no video thread is running, for any sequence of tab clicks,
\* Start/Stop clicks and thread errors.
C22_VideoOnlyOnMapTab ==
    ui_pc = "idle" /\ ~frame_visible["frame_map"] => RunningThreads = {}

C22_Witness ==
    /\ ui_pc = "idle"
    /\ frame_visible["frame_music"]
    /\ video_thread = 2
    /\ threads[1].waited
    /\ threads[2].waited
    /\ RunningThreads = {}
    /\ webcam = Pixmap("info", PausedMessage, 0)

\* The panels that are visible.
VisibleFrames == {f \in Frames : frame_visible[f]}

\* The click of the tab button of panel f: its show_* handler.
TabClicked(f) == _switch_tab(f, f = "frame_map")

\* C23: from the end of setupUi on (which selects the Dashboard tab), after
\* any sequence of tab-button clicks exactly one of the four panels is
\* visible, and it is the panel of the most recently clicked tab: setupUi
\* leaves the dashboard panel visible, a tab click leaves the panel of its
\* tab visible, and no other step changes which panels are visible.
C23_OnePanelVisible ==
    /\ [](ui_pc # "new" => Cardinality(VisibleFrames) = 1)
    /\ [][/\ ui_pc = "new" => VisibleFrames' = {"frame_dashboard"}
          /\ \A f \in Frames : TabClicked(f) => VisibleFrames' = {f}
          /\ (ui_pc # "new" /\ ~\E f \in Frames : TabClicked(f))
                => VisibleFrames' = VisibleFrames]_vars

C23_Witness ==
    /\ ui_pc = "idle"
    /\ VisibleFrames = {"frame_ac"}
    /\ video_thread = 2
    /\ threads[2].waited

\* C24: selecting the tab that is already visible is a no-op: panel
\* visibility, the video thread (which thread it is, and whether a thread
\* is running), the saved resume frame position and the Start/Stop button
\* states are all unchanged; in particular, clicking Map while on the Map
\* tab with video stopped does not restart video.
C24_VisibleTabClickIsNoOp ==
    [][\A f \in Frames :
          frame_visible[f] /\ TabClicked(f) =>
              /\ frame_visible' = frame_visible
              /\ video_thread' = video_thread
              /\ RunningThreads' = RunningThreads
              /\ last_frame_position' = last_frame_position
              /\ btn_start_enabled' = btn_start_enabled
              /\ btn_stop_enabled' = btn_stop_enabled]_vars

C24_Witness ==
    /\ ui_pc = "idle"
    /\ frame_visible["frame_map"]
    /\ video_thread = 1
    /\ threads[1].waited
    /\ RunningThreads = {}
    /\ btn_start_enabled
    /\ ENABLED show_map

----------------------------------------------------------------------------
(* Claims about the wrap-around branches of the drag, checked under        *)
(* SpecMouse.                                                              *)

\* The last handler was a pointer move whose raw value lies inside the snap
\* zone around the current value: an accepted move.
MoveAccepted(l) == MoveMapped(l) /\ ~OutsideSnapZone(MoveRaw(l))

\* C25: during an accepted pointer move with raw_value >= value_max while
\* the previously recorded last_committed_value is below the domain
\* midpoint, the committed value (the one stored and notified) is
\* value_min.
C25_WrapCommitsMin ==
    [][(/\ MoveAccepted(last')
        /\ RGe(MoveRaw(last'), Q(value_max))
        /\ RLt(last_value, Norm(value_min + value_max, 2)))
        => /\ value' = Q(value_min)
           /\ emitted' = <<value_min>>]_vars

\* C26: during an accepted pointer move with raw_value >= value_max while
\* last_committed_value is already >= value_max, the committed value is
\* held at value_max and last_committed_value stays value_max.
C26_HoldAtMax ==
    [][(/\ MoveAccepted(last')
        /\ RGe(MoveRaw(last'), Q(value_max))
        /\ RGe(last_value, Q(value_max)))
        => /\ value' = Q(value_max)
           /\ emitted' = <<value_max>>
           /\ last_value' = Q(value_max)]_vars

\* C27: every accepted pointer move emits exactly one value-changed
\* notification, and the integer it carries equals the truncation of the
\* gauge's current value as it stands after that move.
C27_MoveEmitsCurrentValue ==
    [][MoveAccepted(last')
        => /\ Len(emitted') = 1
           /\ emitted'[1] = Trunc(value')]_vars

----------------------------------------------------------------------------
(* Claims about the layers of a repaint, checked under SpecToggle and       *)
(* SpecPaint.                                                              *)

\* The layers in the order the claim gives: color band, minor ticks, major
\* ticks, scale numbers, value text, needle, center hub.
LayerOrder ==
    <<"filled_polygon", "fine_scaled_marker", "big_scaled_marker",
      "scale_marker_values_text", "values_text", "needle", "center_point">>

\* The toggle of a layer.
LayerEnabled(name) ==
    CASE name = "filled_polygon" -> enable_filled_Polygon
      [] name = "fine_scaled_marker" -> enable_fine_scaled_marker
      [] name = "big_scaled_marker" -> enable_big_scaled_marker
      [] name = "scale_marker_values_text" -> enable_scale_text
      [] name = "values_text" -> enable_value_text
      [] name = "needle" -> enable_Needle_Polygon
      [] name = "center_point" -> enable_CenterPoint

\* The names of the layers the last handler drew, in drawing order.
PaintedLayers == [i \in 1..Len(painted) |-> painted[i].layer]

\* C28: each repaint draws the enabled layers in the fixed order color
\* band, minor ticks, major ticks, scale numbers, value text, needle,
\* center hub, and a layer is drawn if and only if its own toggle is on,
\* whatever the other toggles are.
C28_LayerOrder ==
    last[1] = "paintEvent" =>
        PaintedLayers = SelectSeq(LayerOrder, LayerEnabled)

C28_Witness ==
    /\ last[1] = "paintEvent"
    /\ ~enable_fine_scaled_marker
    /\ ~enable_scale_text
    /\ ~enable_CenterPoint
    /\ PaintedLayers = <<"filled_polygon", "big_scaled_marker",
                         "values_text", "needle">>

\* The angle on the scale that belongs to the current value: the angle of
\* the first major tick as drawn plus the value's share of the span.
ScaleAngleOfValue ==
    RAdd(Layers("big_scaled_marker")[1].lines[1].rotation,
         RDiv(RMul(RSub(RSub(value, Q(value_offset)), Q(value_min)),
                   Q(scale_angle_size)),
              Q(value_max - value_min)))

\* C29: the angle offset is applied uniformly to every angle-dependent
\* layer: in a repaint the color band, the minor ticks, the major ticks,
\* the scale numbers, the value text and the needle are all rotated by
\* angle_offset against their position without offset, so the needle
\* points at the scale position of the current value.
C29_OffsetUniform ==
    (last[1] = "paintEvent" /\ ~failed) =>
        /\ \A i \in 1..Len(Layers("filled_polygon")) :
              Layers("filled_polygon")[i].polygon.first_angle
                 = scale_angle_start_value - angle_offset
        /\ \A i \in 1..Len(Layers("fine_scaled_marker")) :
              Layers("fine_scaled_marker")[i].lines[1].rotation
                 = Q(scale_angle_start_value - angle_offset)
        /\ \A i \in 1..Len(Layers("big_scaled_marker")) :
              Layers("big_scaled_marker")[i].lines[1].rotation
                 = Q(scale_angle_start_value - angle_offset)
        /\ \A i \in 1..Len(Layers("scale_marker_values_text")) :
              Layers("scale_marker_values_text")[i].texts[1].angle
                 = Q(scale_angle_start_value - angle_offset)
        /\ \A i \in 1..Len(Layers("values_text")) :
              Layers("values_text")[i].angle
                 = RSub(RAdd(Norm(scale_angle_size - 360, 2),
                             Q(scale_angle_start_value)),
                        Q(angle_offset))
        /\ (Layers("needle") # <<>> /\ Layers("big_scaled_marker") # <<>>)
              => Layers("needle")[1].rotation
                    = RAdd(ScaleAngleOfValue, Q(90))

\* Integer division truncating towards zero.
TruncDiv(a, b) == Trunc(Norm(a, b))

\* The labels of the scale numbers layer the last repaint drew.
ScaleLabels == Layers("scale_marker_values_text")[1].texts

\* C30: for i in 0..major_count the i-th scale label is
\* value_min + i * ((value_max - value_min) // major_count) with
\* integer-truncating division; the last label equals value_max exactly
\* when (value_max - value_min) is divisible by major_count and is below
\* value_max otherwise.
C30_ScaleLabels ==
    (last[1] = "paintEvent" /\ Layers("scale_marker_values_text") # <<>>) =>
        /\ Len(ScaleLabels) = scala_main_count + 1
        /\ \A i \in 0..scala_main_count :
              ScaleLabels[i + 1].text =
                 value_min
                 + i * TruncDiv(value_max - value_min, scala_main_count)
        /\ ScaleLabels[scala_main_count + 1].text = value_max
              <=> (value_max - value_min) % scala_main_count = 0
        /\ (value_max - value_min) % scala_main_count # 0
              => ScaleLabels[scala_main_count + 1].text < value_max

\* Bounds -10..100 with three major ticks: the labels are -10, 26, 62, 98.
C30_Witness ==
    /\ last[1] = "paintEvent"
    /\ value_min = -10
    /\ value_max = 100
    /\ scala_main_count = 3
    /\ Layers("scale_marker_values_text") # <<>>
    /\ [i \in 1..4 |-> ScaleLabels[i].text] = <<-10, 26, 62, 98>>

====
